---- MODULE Spec2Model ----
(***************************************************************************)
(* Caprecon NGO API (src/main.py, src/schemas.py): a FastAPI application   *)
(* with three list endpoints over content collections, four create         *)
(* endpoints for intake forms, and three auxiliary endpoints, on top of a  *)
(* document store reached through database.py (create_document,            *)
(* get_documents, db).  database.py is not part of the sources at hand;    *)
(* its two helpers are modelled from the specification's adapter section.  *)
(*                                                                         *)
(* A JSON object is a function from the names of the fields that are       *)
(* present to their values; an absent field is absent from the DOMAIN.     *)
(* Python's None / JSON null is the value NULL.  Text whose length matters *)
(* (error messages, e-mail addresses, identifiers) is a sequence of        *)
(* one-character strings.                                                  *)
(***************************************************************************)
EXTENDS Integers, Sequences, FiniteSets, TLC

VARIABLES
    db,        \* database.db: "none" (no connection configured) or "connected"
    storeUp,   \* whether the database server answers
    store,     \* collection name -> sequence of stored documents
    nextId,    \* the store's identifier generator
    req,       \* the request served last: [op, args]
    resp,      \* its response: [status, body]
    raised,    \* <<text>> of the exception the store raised for it, or <<>>
    calls,     \* number of store calls the handler made for it
    serving,   \* the process is alive and accepts requests
    degraded   \* some list/create request was answered 500 for lack of a store

vars == <<db, storeUp, store, nextId, req, resp, raised, calls, serving, degraded>>

-----------------------------------------------------------------------------
(* Bounds of the model *)

MaxContentDocs == 3
MaxIntakeDocs == 1
MaxDocs == 2
MaxLimit == 2
ShortErrLen == 5
LongErrLen == 125

(* Program constants *)

HTTP_OK == 200
HTTP_UNPROCESSABLE == 422
HTTP_SERVER_ERROR == 500
DefaultLimitPrograms == 20
DefaultLimitStories == 12
DefaultLimitPosts == 12
CollectionsShown == 20
InnerErrShown == 80
OuterErrShown == 120

NULL == "<null>"

-----------------------------------------------------------------------------
(* Generic helpers *)

Min(a, b) == IF a < b THEN a ELSE b

\* Python slice s[:n]
Truncate(s, n) == SubSeq(s, 1, Min(n, Len(s)))

Take(s, n) == SubSeq(s, 1, Min(n, Len(s)))

Last(s) == s[Len(s)]

IsPrefix(s, t) == Len(s) <= Len(t) /\ SubSeq(t, 1, Len(s)) = s

EmptyDict == [x \in {} |-> x]

\* dict.get(f, d) on a JSON object
WithDefault(b, f, d) == IF f \in DOMAIN b THEN b[f] ELSE d

\* A JSON object from per-field options: <<>> leaves the field out, <<v>> sets it.
Body(opts) == [f \in {g \in DOMAIN opts : opts[g] # <<>>} |-> opts[f][1]]

Some(S) == {<<v>> : v \in S}

Opt(S) == {<<>>} \cup Some(S)

ErrText(n) == [i \in 1..n |-> "x"]

ErrTexts == {ErrText(ShortErrLen), ErrText(LongErrLen)}

-----------------------------------------------------------------------------
(* Collections *)

ContentCollections == {"program", "story", "post"}

IntakeCollections == {"donationintent", "volunteerapplication", "partnerinquiry", "contactmessage"}

Collections == ContentCollections \cup IntakeCollections

CollectionOrder == <<"program", "story", "post", "donationintent", "volunteerapplication", "partnerinquiry", "contactmessage">>

ContentStatus == {"draft", "published"}

VolunteerStatus == {"received", "screening", "accepted", "declined"}

PartnerStatus == {"received", "in_discussion", "mou_draft", "closed"}

Frequency == {"one_time", "monthly"}

-----------------------------------------------------------------------------
(* Field validators of the schema layer (pydantic).  Each yields the set   *)
(* of <<field, error type>> pairs it reports; the empty set accepts.       *)

\* EmailStr: exactly one "@", a non-empty local part, and a domain with a
\* period that neither starts nor ends it; no blanks.
ValidEmail(e) ==
    LET ats == {i \in 1..Len(e) : e[i] = "@"}
    IN  /\ Cardinality(ats) = 1
        /\ \A i \in 1..Len(e) : e[i] # " "
        /\ LET at == CHOOSE i \in ats : TRUE
           IN  /\ at > 1
               /\ at < Len(e)
               /\ e[at + 1] # "."
               /\ e[Len(e)] # "."
               /\ \E j \in (at + 2)..(Len(e) - 1) : e[j] = "."

\* a field declared without a default (Field(...), or a bare annotation)
Required(b, f) == IF f \in DOMAIN b THEN {} ELSE {<<f, "missing">>}

\* consent declared with a default (consent: bool = False)
RequiredBool_Defaulted(b, f) == {}

\* consent: bool / compliance_ack: bool = Field(...): a boolean without a default
RequiredBool(b, f) == IF f \in DOMAIN b THEN {} ELSE {<<f, "missing">>}

\* the value of a field in a validated object (validation has checked a
\* required field to be present)
Value(b, f) == WithDefault(b, f, NULL)

\* email declared str in place of EmailStr
EmailField_AnyString(b, f) == IF f \in DOMAIN b THEN {} ELSE {<<f, "missing">>}

\* email: EmailStr
EmailField(b, f) ==
    IF f \notin DOMAIN b THEN {<<f, "missing">>}
    ELSE IF ValidEmail(b[f]) THEN {} ELSE {<<f, "value_error">>}

\* amount declared with ge=0 in place of gt=0
GreaterOrEqual(b, f, bound) ==
    IF f \notin DOMAIN b THEN {<<f, "missing">>}
    ELSE IF b[f] >= bound THEN {} ELSE {<<f, "greater_than">>}

\* amount: float = Field(..., gt=0)
GreaterThan(b, f, bound) ==
    IF f \notin DOMAIN b THEN {<<f, "missing">>}
    ELSE IF b[f] > bound THEN {} ELSE {<<f, "greater_than">>}

\* status declared Optional[str] in place of Optional[Literal[...]]
OptionalLiteral_AnyString(b, f, allowed) == {}

\* Optional[Literal[...]] = default: absent takes the default, null is accepted
OptionalLiteral(b, f, allowed) ==
    IF f \notin DOMAIN b THEN {}
    ELSE IF b[f] = NULL \/ b[f] \in allowed THEN {} ELSE {<<f, "literal_error">>}

\* Literal[...] = default: absent takes the default, null is rejected
PlainLiteral(b, f, allowed) ==
    IF f \notin DOMAIN b THEN {}
    ELSE IF b[f] \in allowed THEN {} ELSE {<<f, "literal_error">>}

-----------------------------------------------------------------------------
(* The schemas: XErrors(b) validates a JSON object, X(b) is the instance   *)
(* built from an accepted one, defaults filled in (model_dump).            *)

ProgramErrors(b) ==
    Required(b, "title") \cup Required(b, "summary")
        \cup OptionalLiteral(b, "status", ContentStatus)

Program(b) ==
    [title |-> Value(b, "title"),
     summary |-> Value(b, "summary"),
     problem_context |-> WithDefault(b, "problem_context", NULL),
     approach |-> WithDefault(b, "approach", NULL),
     activities |-> WithDefault(b, "activities", <<>>),
     beneficiaries |-> WithDefault(b, "beneficiaries", <<>>),
     expected_impact |-> WithDefault(b, "expected_impact", NULL),
     locations |-> WithDefault(b, "locations", <<>>),
     tags |-> WithDefault(b, "tags", <<>>),
     status |-> WithDefault(b, "status", "published")]

StoryErrors(b) ==
    Required(b, "title") \cup OptionalLiteral(b, "status", ContentStatus)

Story(b) ==
    [title |-> Value(b, "title"),
     excerpt |-> WithDefault(b, "excerpt", NULL),
     body |-> WithDefault(b, "body", NULL),
     program_tags |-> WithDefault(b, "program_tags", <<>>),
     author |-> WithDefault(b, "author", NULL),
     location |-> WithDefault(b, "location", NULL),
     status |-> WithDefault(b, "status", "published")]

PostErrors(b) ==
    Required(b, "title") \cup OptionalLiteral(b, "status", ContentStatus)

Post(b) ==
    [title |-> Value(b, "title"),
     excerpt |-> WithDefault(b, "excerpt", NULL),
     body |-> WithDefault(b, "body", NULL),
     category |-> WithDefault(b, "category", NULL),
     tags |-> WithDefault(b, "tags", <<>>),
     author |-> WithDefault(b, "author", NULL),
     status |-> WithDefault(b, "status", "published")]

DonationIntentErrors(b) ==
    GreaterThan(b, "amount", 0)
        \cup PlainLiteral(b, "frequency", Frequency)
        \cup Required(b, "first_name") \cup Required(b, "last_name")
        \cup EmailField(b, "email")
        \cup RequiredBool(b, "consent")

DonationIntent(b) ==
    [amount |-> Value(b, "amount"),
     currency |-> WithDefault(b, "currency", "USD"),
     frequency |-> WithDefault(b, "frequency", "one_time"),
     fund |-> WithDefault(b, "fund", NULL),
     first_name |-> Value(b, "first_name"),
     last_name |-> Value(b, "last_name"),
     email |-> Value(b, "email"),
     country |-> WithDefault(b, "country", NULL),
     message |-> WithDefault(b, "message", NULL),
     consent |-> Value(b, "consent")]

VolunteerApplicationErrors(b) ==
    Required(b, "name") \cup EmailField(b, "email") \cup RequiredBool(b, "consent")
        \cup OptionalLiteral(b, "status", VolunteerStatus)

VolunteerApplication(b) ==
    [name |-> Value(b, "name"),
     email |-> Value(b, "email"),
     phone |-> WithDefault(b, "phone", NULL),
     location |-> WithDefault(b, "location", NULL),
     role_interest |-> WithDefault(b, "role_interest", NULL),
     availability |-> WithDefault(b, "availability", NULL),
     experience |-> WithDefault(b, "experience", NULL),
     references |-> WithDefault(b, "references", NULL),
     consent |-> Value(b, "consent"),
     status |-> WithDefault(b, "status", "received")]

PartnerInquiryErrors(b) ==
    Required(b, "organization") \cup Required(b, "contact_name")
        \cup EmailField(b, "email") \cup RequiredBool(b, "compliance_ack")
        \cup OptionalLiteral(b, "status", PartnerStatus)

PartnerInquiry(b) ==
    [organization |-> Value(b, "organization"),
     partner_type |-> WithDefault(b, "partner_type", NULL),
     contact_name |-> Value(b, "contact_name"),
     email |-> Value(b, "email"),
     phone |-> WithDefault(b, "phone", NULL),
     country |-> WithDefault(b, "country", NULL),
     collaboration_areas |-> WithDefault(b, "collaboration_areas", NULL),
     message |-> WithDefault(b, "message", NULL),
     compliance_ack |-> Value(b, "compliance_ack"),
     status |-> WithDefault(b, "status", "received")]

ContactMessageErrors(b) ==
    Required(b, "name") \cup EmailField(b, "email") \cup Required(b, "message")
        \cup RequiredBool(b, "consent")

ContactMessage(b) ==
    [topic |-> WithDefault(b, "topic", NULL),
     name |-> Value(b, "name"),
     email |-> Value(b, "email"),
     message |-> Value(b, "message"),
     consent |-> Value(b, "consent")]

\* the schema of a content collection, by collection name
ContentErrors(coll, b) ==
    IF coll = "program" THEN ProgramErrors(b)
    ELSE IF coll = "story" THEN StoryErrors(b) ELSE PostErrors(b)

ContentModel(coll, b) ==
    IF coll = "program" THEN Program(b)
    ELSE IF coll = "story" THEN Story(b) ELSE Post(b)

-----------------------------------------------------------------------------
(* Document store adapter (database.py: db, create_document,               *)
(* get_documents).  s is the store as a handler finds it:                  *)
(* [db, up, store, nextId]; err is the text of the exception the driver    *)
(* raises when the server does not answer.                                 *)

Available(s) == s.db = "connected" /\ s.up

NotAvailableText == <<"n", "o", " ", "d", "b">>

Digits == <<"0", "1", "2", "3", "4", "5", "6", "7", "8", "9">>

RECURSIVE IdToStr(_)
\* str(inserted_id)
IdToStr(n) ==
    IF n < 10 THEN <<Digits[n + 1]>>
    ELSE IdToStr(n \div 10) \o <<Digits[(n % 10) + 1]>>

\* the filter of a find(): every key of the filter has that value in the document
Matches(d, filter) == \A k \in DOMAIN filter : k \in DOMAIN d /\ d[k] = filter[k]

create_document(s, coll, data, err) ==
    IF s.db = "none"
    THEN [ok |-> FALSE, error |-> NotAvailableText, id |-> <<>>,
          store |-> s.store, nextId |-> s.nextId]
    ELSE IF ~s.up
    THEN [ok |-> FALSE, error |-> err, id |-> <<>>,
          store |-> s.store, nextId |-> s.nextId]
    ELSE [ok |-> TRUE, error |-> <<>>, id |-> IdToStr(s.nextId),
          store |-> [s.store EXCEPT ![coll] = Append(@, data @@ ("_id" :> s.nextId))],
          nextId |-> s.nextId + 1]

get_documents(s, coll, filter, limit, err) ==
    IF s.db = "none" THEN [ok |-> FALSE, error |-> NotAvailableText, docs |-> <<>>]
    ELSE IF ~s.up THEN [ok |-> FALSE, error |-> err, docs |-> <<>>]
    ELSE LET Hit(d) == Matches(d, filter)
         IN  [ok |-> TRUE, error |-> <<>>,
              docs |-> Take(SelectSeq(s.store[coll], Hit), limit)]

\* db.list_collection_names(): the collections that hold a document
RECURSIVE NamesFrom(_, _)
NamesFrom(st, i) ==
    IF i > Len(CollectionOrder) THEN <<>>
    ELSE (IF st[CollectionOrder[i]] # <<>> THEN <<CollectionOrder[i]>> ELSE <<>>)
             \o NamesFrom(st, i + 1)

list_collection_names(st) == NamesFrom(st, 1)

-----------------------------------------------------------------------------
(* HTTP layer.  A handler yields an outcome: the response, the store after *)
(* it, the exception text the store raised (<<text>>, or <<>>), the number *)
(* of store calls made, and whether the process survives.                  *)

Outcome(status, body, s) ==
    [resp |-> [status |-> status, body |-> body], store |-> s.store,
     nextId |-> s.nextId, raised |-> <<>>, calls |-> 0, serving |-> TRUE]

\* FastAPI answers a body that fails its schema before the handler runs
request_validation_error(errors, s) ==
    Outcome(HTTP_UNPROCESSABLE, [detail |-> errors], s)

\* an exception leaving a handler: the framework answers 500 and goes on
unhandled_exception(text, n, s) ==
    [Outcome(HTTP_SERVER_ERROR, "Internal Server Error", s)
        EXCEPT !.raised = <<text>>, !.calls = n]

read_root(s) == Outcome(HTTP_OK, [message |-> "Caprecon Backend Running"], s)

hello(s) == Outcome(HTTP_OK, [message |-> "Hello from Caprecon API"], s)

\* test_database without the "db is not None" test: None has no name and
\* no list_collection_names; the inner handler catches the AttributeError
test_database_NoNoneCheck(s, urlSet, nameRaises, err) ==
    LET report == [backend |-> "Running",
                   database |-> <<"Connected but Error: ", Truncate(err, InnerErrShown)>>,
                   database_url |-> IF urlSet THEN "Set" ELSE "Not Set",
                   database_name |-> "Connected",
                   connection_status |-> "Connected",
                   collections |-> <<>>]
    IN  Outcome(HTTP_OK, report, s)

test_database(s, urlSet, nameRaises, err) ==
    LET response == [backend |-> "Running",
                     database |-> <<"Not Available", <<>>>>,
                     database_url |-> NULL,
                     database_name |-> NULL,
                     connection_status |-> "Not Connected",
                     collections |-> <<>>]
        r1 == [response EXCEPT !.database = <<"Available", <<>>>>,
                               !.database_url = IF urlSet THEN "Set" ELSE "Not Set"]
        r2 == [r1 EXCEPT !.database_name = "db.name",
                         !.connection_status = "Connected"]
        report ==
            IF s.db # "none"
            THEN IF nameRaises
                 THEN [r1 EXCEPT !.database = <<"Error: ", Truncate(err, OuterErrShown)>>]
                 ELSE IF s.up
                      THEN [r2 EXCEPT
                              !.collections = Truncate(list_collection_names(s.store), CollectionsShown),
                              !.database = <<"Connected & Working", <<>>>>]
                      ELSE [r2 EXCEPT
                              !.database = <<"Connected but Error: ", Truncate(err, InnerErrShown)>>]
            ELSE [response EXCEPT !.database = <<"Available but not initialized", <<>>>>]
        failed == s.db # "none" /\ (nameRaises \/ ~s.up)
    IN  [Outcome(HTTP_OK, report, s) EXCEPT !.raised = IF failed THEN <<err>> ELSE <<>>]

\* filter_q left empty whatever published_only says
FilterQ_NeverFilter(published_only) == EmptyDict

\* filter_q restricted to published whatever published_only says
FilterQ_AlwaysPublished(published_only) == [status |-> "published"]

\* filter_q of the three list handlers
FilterQ(published_only) ==
    IF published_only THEN [status |-> "published"] ELSE EmptyDict

\* d.pop("_id", None) on a returned document
PopId(d) == [k \in DOMAIN d \ {"_id"} |-> d[k]]

\* response_model=List[X]: every returned document is validated against X and
\* serialized with X's fields; one that fails makes the response a server error
ResponseModel(coll, docs, n, s) ==
    IF \E i \in 1..Len(docs) : ContentErrors(coll, docs[i]) # {}
    THEN unhandled_exception(<<>>, n, s)
    ELSE [Outcome(HTTP_OK, [i \in 1..Len(docs) |-> ContentModel(coll, docs[i])], s)
            EXCEPT !.calls = n]

\* a list handler that answers an empty list when the store raises
list_handler_SwallowErrors(coll, s, limit, published_only, err) ==
    LET got == get_documents(s, coll, FilterQ(published_only), limit, err)
        docs == [i \in 1..Len(got.docs) |-> PopId(got.docs[i])]
    IN  IF got.ok THEN ResponseModel(coll, docs, 1, s)
        ELSE [Outcome(HTTP_OK, <<>>, s) EXCEPT !.raised = <<got.error>>, !.calls = 1]

\* a list handler whose pop("_id") reaches the stored documents
list_handler_Aliased(coll, s, limit, published_only, err) ==
    LET got == get_documents(s, coll, FilterQ(published_only), limit, err)
        docs == [i \in 1..Len(got.docs) |-> PopId(got.docs[i])]
        popped == [s EXCEPT !.store[coll] = [i \in 1..Len(@) |-> PopId(@[i])]]
    IN  IF got.ok THEN ResponseModel(coll, docs, 1, popped)
        ELSE unhandled_exception(got.error, 1, s)

list_handler(coll, s, limit, published_only, err) ==
    LET filter_q == FilterQ(published_only)
        got == get_documents(s, coll, filter_q, limit, err)
        docs == [i \in 1..Len(got.docs) |-> PopId(got.docs[i])]
    IN  IF got.ok THEN ResponseModel(coll, docs, 1, s)
        ELSE unhandled_exception(got.error, 1, s)

list_programs(s, limit, published_only, err) ==
    list_handler("program", s, limit, published_only, err)

list_stories(s, limit, published_only, err) ==
    list_handler("story", s, limit, published_only, err)

list_posts(s, limit, published_only, err) ==
    list_handler("post", s, limit, published_only, err)

\* a create handler that tries the insert a second time when it fails
create_handler_Retry(coll, message, data, s, err) ==
    LET r1 == create_document(s, coll, data, err)
        r == IF r1.ok THEN r1 ELSE create_document(s, coll, data, err)
    IN  IF r.ok
        THEN [resp |-> [status |-> HTTP_OK, body |-> [id |-> r.id, message |-> message]],
              store |-> r.store, nextId |-> r.nextId,
              raised |-> <<>>, calls |-> IF r1.ok THEN 1 ELSE 2, serving |-> TRUE]
        ELSE [resp |-> [status |-> HTTP_SERVER_ERROR, body |-> [detail |-> r.error]],
              store |-> r.store, nextId |-> r.nextId,
              raised |-> <<r.error>>, calls |-> 2, serving |-> TRUE]

create_handler(coll, message, data, s, err) ==
    LET r == create_document(s, coll, data, err)
    IN  IF r.ok
        THEN [resp |-> [status |-> HTTP_OK, body |-> [id |-> r.id, message |-> message]],
              store |-> r.store, nextId |-> r.nextId,
              raised |-> <<>>, calls |-> 1, serving |-> TRUE]
        ELSE [resp |-> [status |-> HTTP_SERVER_ERROR, body |-> [detail |-> r.error]],
              store |-> r.store, nextId |-> r.nextId,
              raised |-> <<r.error>>, calls |-> 1, serving |-> TRUE]

create_donation(intent, s, err) ==
    create_handler("donationintent", "Donation intent recorded", intent, s, err)

create_volunteer(apply, s, err) ==
    create_handler("volunteerapplication", "Volunteer application received", apply, s, err)

create_partner(inquiry, s, err) ==
    create_handler("partnerinquiry", "Partner inquiry submitted", inquiry, s, err)

create_contact(msg, s, err) ==
    create_handler("contactmessage", "Message received", msg, s, err)

-----------------------------------------------------------------------------
(* The content-authoring process outside the API (the spec's "created by   *)
(* an administrative process"): it stores schema instances with            *)
(* create_document, as the note closing schemas.py describes.              *)

admin_insert(coll, b, s, err) ==
    LET errors == ContentErrors(coll, b)
        r == create_document(s, coll, ContentModel(coll, b), err)
    IN  IF errors # {}
        THEN Outcome(0, [accepted |-> FALSE], s)
        ELSE [Outcome(0, [accepted |-> r.ok], s)
                EXCEPT !.store = r.store, !.nextId = r.nextId, !.calls = 1]

-----------------------------------------------------------------------------
(* Inputs.  The validators above cover every declared field; the request   *)
(* bodies tried vary the fields a validator constrains.                    *)

GoodEmail == <<"a", "@", "b", ".", "c">>

BadEmail == <<"n", "o", "t", "-", "a", "n", "-", "e", "m", "a", "i", "l">>

Emails == {GoodEmail, BadEmail}

\* bodies of the intake specification: each constrained field right, wrong or absent
DonationBodies ==
    {Body(o) : o \in [amount : Some({-1, 0, 1}),
                      frequency : Opt({"weekly"}),
                      first_name : Opt({"x"}),
                      last_name : Some({"y"}),
                      email : Some(Emails),
                      consent : Opt(BOOLEAN)]}

VolunteerBodies ==
    {Body(o) : o \in [name : Opt({"x"}),
                      email : Some(Emails),
                      consent : Opt(BOOLEAN),
                      status : Opt({"bogus"})]}

PartnerBodies ==
    {Body(o) : o \in [organization : Opt({"x"}),
                      contact_name : Some({"y"}),
                      email : Some(Emails),
                      compliance_ack : Opt(BOOLEAN),
                      status : Opt({"bogus"})]}

ContactBodies ==
    {Body(o) : o \in [name : Opt({"x"}),
                      email : Some(Emails),
                      message : Some({"m"}),
                      consent : Opt(BOOLEAN)]}

\* bodies of the content specification
ProgramBodies ==
    {Body(o) : o \in [title : Some({"a"}),
                      summary : Some({"s"}),
                      status : Opt({NULL, "draft"})]}

StoryBodies ==
    {Body(o) : o \in [title : Some({"a"}), status : Opt({"draft"})]}

PostBodies ==
    {Body(o) : o \in [title : Some({"a"})]}

ContentBodies(coll) ==
    IF coll = "program" THEN ProgramBodies
    ELSE IF coll = "story" THEN StoryBodies ELSE PostBodies

\* bodies of the status specification: every status value, null, and one outside
VolunteerStatusBodies ==
    {Body(o) : o \in [name : Some({"x"}),
                      email : Some({GoodEmail}),
                      consent : Some({TRUE}),
                      status : Opt(VolunteerStatus \cup {NULL, "bogus"})]}

PartnerStatusBodies ==
    {Body(o) : o \in [organization : Some({"x"}),
                      contact_name : Some({"y"}),
                      email : Some({GoodEmail}),
                      compliance_ack : Some({TRUE}),
                      status : Opt(PartnerStatus \cup {NULL, "bogus"})]}

ContentStatusBodies(coll) ==
    {Body(o) : o \in [title : Some({"a"}),
                      summary : Some({"s"}),
                      status : Opt(ContentStatus \cup {NULL, "bogus"})]}

\* bodies of the specification of all endpoints: one accepted and one refused each
DonationSamples ==
    {Body(o) : o \in [amount : Some({0, 1}),
                      first_name : Some({"x"}),
                      last_name : Some({"y"}),
                      email : Some({GoodEmail}),
                      consent : Some({TRUE})]}

VolunteerSamples ==
    {Body(o) : o \in [name : Some({"x"}),
                      email : Some(Emails),
                      consent : Some({TRUE})]}

PartnerSamples ==
    {Body(o) : o \in [organization : Some({"x"}),
                      contact_name : Some({"y"}),
                      email : Some({GoodEmail}),
                      compliance_ack : Opt({TRUE})]}

ContactSamples ==
    {Body(o) : o \in [name : Opt({"x"}),
                      email : Some({GoodEmail}),
                      message : Some({"m"}),
                      consent : Some({FALSE})]}

ContentSamples(coll) ==
    IF coll = "program"
    THEN {Body(o) : o \in [title : Some({"a"}), summary : Some({"s"}),
                           status : Opt({"draft", "bogus"})]}
    ELSE {Body(o) : o \in [title : Opt({"a"})]}

LimitParams == Opt(1..MaxLimit)

LimitSamples == Opt({1})

FlagParams == Opt(BOOLEAN)

\* a query parameter, or its declared default
Param(o, default) == IF o = <<>> THEN default ELSE o[1]

\* the exception texts the driver may raise for a request
Errors(s) == IF s.db = "connected" /\ ~s.up THEN ErrTexts ELSE {<<>>}

-----------------------------------------------------------------------------
(* State machine *)

ListOps == {"list_programs", "list_stories", "list_posts"}

CreateOps == {"create_donation", "create_volunteer", "create_partner", "create_contact"}

AuxOps == {"read_root", "hello", "test_database"}

CollectionOf(op) ==
    CASE op = "list_programs" -> "program"
      [] op = "list_stories" -> "story"
      [] op = "list_posts" -> "post"
      [] op = "create_donation" -> "donationintent"
      [] op = "create_volunteer" -> "volunteerapplication"
      [] op = "create_partner" -> "partnerinquiry"
      [] op = "create_contact" -> "contactmessage"

DefaultLimit(op) ==
    CASE op = "list_programs" -> DefaultLimitPrograms
      [] op = "list_stories" -> DefaultLimitStories
      [] op = "list_posts" -> DefaultLimitPosts

Env == [db |-> db, up |-> storeUp, store |-> store, nextId |-> nextId]

DocCount(st) ==
    Len(st["program"]) + Len(st["story"]) + Len(st["post"])
        + Len(st["donationintent"]) + Len(st["volunteerapplication"])
        + Len(st["partnerinquiry"]) + Len(st["contactmessage"])

NoResponse == [status |-> 0, body |-> <<>>]

Init ==
    /\ db \in {"none", "connected"}
    /\ storeUp = (db = "connected")
    /\ store = [c \in Collections |-> <<>>]
    /\ nextId = 1
    /\ req = [op |-> "startup", args |-> <<>>]
    /\ resp = NoResponse
    /\ raised = <<>>
    /\ calls = 0
    /\ serving = TRUE
    /\ degraded = FALSE

\* one request served: cap bounds the documents the store may come to hold
Serve(op, args, out, cap) ==
    /\ serving
    /\ DocCount(out.store) <= cap
    /\ req' = [op |-> op, args |-> args]
    /\ resp' = out.resp
    /\ store' = out.store
    /\ nextId' = out.nextId
    /\ raised' = out.raised
    /\ calls' = out.calls
    /\ serving' = out.serving
    /\ degraded' = (degraded \/ (/\ op \in ListOps \cup CreateOps
                                 /\ ~Available(Env)
                                 /\ out.resp.status = HTTP_SERVER_ERROR))
    /\ UNCHANGED <<db, storeUp>>

GetRoot(cap) == Serve("read_root", <<>>, read_root(Env), cap)

GetHello(cap) == Serve("hello", <<>>, hello(Env), cap)

GetTest(cap) ==
    \E urlSet \in BOOLEAN, nameRaises \in BOOLEAN :
        \E err \in (IF db = "connected" /\ (nameRaises \/ ~storeUp) THEN ErrTexts ELSE {<<>>}) :
            Serve("test_database", [url_set |-> urlSet, name_raises |-> nameRaises],
                  test_database(Env, urlSet, nameRaises, err), cap)

GetPrograms(limits, cap) ==
    \E l \in limits, p \in FlagParams, err \in Errors(Env) :
        Serve("list_programs", [limit |-> l, published_only |-> p],
              list_programs(Env, Param(l, DefaultLimitPrograms), Param(p, TRUE), err), cap)

GetStories(limits, cap) ==
    \E l \in limits, p \in FlagParams, err \in Errors(Env) :
        Serve("list_stories", [limit |-> l, published_only |-> p],
              list_stories(Env, Param(l, DefaultLimitStories), Param(p, TRUE), err), cap)

GetPosts(limits, cap) ==
    \E l \in limits, p \in FlagParams, err \in Errors(Env) :
        Serve("list_posts", [limit |-> l, published_only |-> p],
              list_posts(Env, Param(l, DefaultLimitPosts), Param(p, TRUE), err), cap)

PostDonations(bodies, cap) ==
    \E b \in bodies, err \in Errors(Env) :
        LET errors == DonationIntentErrors(b)
        IN  Serve("create_donation", b,
                  IF errors # {} THEN request_validation_error(errors, Env)
                  ELSE create_donation(DonationIntent(b), Env, err), cap)

PostVolunteers(bodies, cap) ==
    \E b \in bodies, err \in Errors(Env) :
        LET errors == VolunteerApplicationErrors(b)
        IN  Serve("create_volunteer", b,
                  IF errors # {} THEN request_validation_error(errors, Env)
                  ELSE create_volunteer(VolunteerApplication(b), Env, err), cap)

PostPartners(bodies, cap) ==
    \E b \in bodies, err \in Errors(Env) :
        LET errors == PartnerInquiryErrors(b)
        IN  Serve("create_partner", b,
                  IF errors # {} THEN request_validation_error(errors, Env)
                  ELSE create_partner(PartnerInquiry(b), Env, err), cap)

PostContact(bodies, cap) ==
    \E b \in bodies, err \in Errors(Env) :
        LET errors == ContactMessageErrors(b)
        IN  Serve("create_contact", b,
                  IF errors # {} THEN request_validation_error(errors, Env)
                  ELSE create_contact(ContactMessage(b), Env, err), cap)

AdminInsert(coll, bodies, cap) ==
    /\ Available(Env)
    /\ \E b \in bodies :
          Serve("admin_insert", [collection |-> coll, body |-> b],
                admin_insert(coll, b, Env, <<>>), cap)

\* the database server stops answering / answers again
Environment(up) ==
    /\ db = "connected"
    /\ storeUp # up
    /\ storeUp' = up
    /\ req' = [op |-> "environment", args |-> <<>>]
    /\ resp' = NoResponse
    /\ raised' = <<>>
    /\ calls' = 0
    /\ UNCHANGED <<db, store, nextId, serving, degraded>>

StoreDown == Environment(FALSE)

StoreUp == Environment(TRUE)

\* the intake forms alone
NextIntake ==
    \/ PostDonations(DonationBodies, MaxIntakeDocs)
    \/ PostVolunteers(VolunteerBodies, MaxIntakeDocs)
    \/ PostPartners(PartnerBodies, MaxIntakeDocs)
    \/ PostContact(ContactBodies, MaxIntakeDocs)
    \/ StoreDown
    \/ StoreUp

SpecIntake == Init /\ [][NextIntake]_vars

\* the content collections alone
NextContent ==
    \/ \E coll \in ContentCollections : AdminInsert(coll, ContentBodies(coll), MaxContentDocs)
    \/ GetPrograms(LimitParams, MaxContentDocs)
    \/ GetStories(LimitParams, MaxContentDocs)
    \/ GetPosts(LimitParams, MaxContentDocs)
    \/ StoreDown
    \/ StoreUp

SpecContent == Init /\ [][NextContent]_vars

\* the status fields alone
NextStatus ==
    \/ PostVolunteers(VolunteerStatusBodies, MaxDocs)
    \/ PostPartners(PartnerStatusBodies, MaxDocs)
    \/ \E coll \in ContentCollections : AdminInsert(coll, ContentStatusBodies(coll), MaxDocs)
    \/ StoreDown
    \/ StoreUp

SpecStatus == Init /\ [][NextStatus]_vars

\* every endpoint
Next ==
    \/ GetRoot(MaxDocs)
    \/ GetHello(MaxDocs)
    \/ GetTest(MaxDocs)
    \/ GetPrograms(LimitSamples, MaxDocs)
    \/ GetStories(LimitSamples, MaxDocs)
    \/ GetPosts(LimitSamples, MaxDocs)
    \/ PostDonations(DonationSamples, MaxDocs)
    \/ PostVolunteers(VolunteerSamples, MaxDocs)
    \/ PostPartners(PartnerSamples, MaxDocs)
    \/ PostContact(ContactSamples, MaxDocs)
    \/ \E coll \in ContentCollections : AdminInsert(coll, ContentSamples(coll), MaxDocs)
    \/ StoreDown
    \/ StoreUp

Spec == Init /\ [][Next]_vars

-----------------------------------------------------------------------------
(* Properties *)

IsPublished(d) == d["status"] = "published"

Published(coll) == SelectSeq(store[coll], IsPublished)

EffLimit == Param(req.args.limit, DefaultLimit(req.op))

EffPublishedOnly == Param(req.args.published_only, TRUE)

ReportFields ==
    {"backend", "database", "database_url", "database_name", "connection_status", "collections"}

ConsentField(op) == IF op = "create_partner" THEN "compliance_ack" ELSE "consent"

C2_NonPositiveAmount ==
    [][(req'.op = "create_donation" /\ req'.args["amount"] <= 0) =>
          /\ resp'.status = HTTP_UNPROCESSABLE
          /\ <<"amount", "greater_than">> \in resp'.body.detail
          /\ calls' = 0
          /\ store' = store
          /\ nextId' = nextId]_vars

C2_Witness ==
    /\ req.op = "create_donation"
    /\ req.args["amount"] = 0
    /\ Available(Env)
    /\ resp.status = HTTP_UNPROCESSABLE
    /\ resp.body.detail = {<<"amount", "greater_than">>}

\* C3: on each of the four create endpoints a body without the consent field
\* (compliance_ack for partners) is answered with a validation failure that
\* reports the field missing; no store call is made and the store is unchanged.
C3_ConsentRequired ==
    [][(req'.op \in CreateOps /\ ConsentField(req'.op) \notin DOMAIN req'.args) =>
          /\ resp'.status = HTTP_UNPROCESSABLE
          /\ <<ConsentField(req'.op), "missing">> \in resp'.body.detail
          /\ calls' = 0
          /\ store' = store
          /\ nextId' = nextId]_vars

C3_Witness ==
    /\ req.op = "create_partner"
    /\ "compliance_ack" \notin DOMAIN req.args
    /\ Available(Env)
    /\ resp.status = HTTP_UNPROCESSABLE
    /\ resp.body.detail = {<<"compliance_ack", "missing">>}

\* C4: a create request whose email is "not-an-email" is answered with a status
\* of the client-error class, never 500, whether or not the store answers.
C4_BadEmailClientError ==
    (req.op \in CreateOps /\ req.args["email"] = BadEmail) =>
        /\ resp.status >= 400
        /\ resp.status < HTTP_SERVER_ERROR
        /\ <<"email", "value_error">> \in resp.body.detail
        /\ calls = 0

C4_Witness ==
    /\ req.op = "create_donation"
    /\ req.args["email"] = BadEmail
    /\ ~Available(Env)
    /\ resp.status = HTTP_UNPROCESSABLE
    /\ resp.body.detail = {<<"email", "value_error">>}

ProgramFields ==
    {"title", "summary", "problem_context", "approach", "activities", "beneficiaries",
     "expected_impact", "locations", "tags", "status"}

\* both halves of the round trip: a stored Program has the submitted value in
\* every submitted field, and a listing with published_only false and a limit
\* of at least the collection size returns, for every stored Program, a record
\* equal to it on every Program field
RoundTrip ==
    /\ (req.op = "admin_insert" /\ req.args.collection = "program" /\ resp.body.accepted) =>
          \A f \in DOMAIN req.args.body :
              Last(store["program"])[f] = req.args.body[f]
    /\ (req.op = "list_programs" /\ ~EffPublishedOnly /\ Available(Env)
            /\ EffLimit >= Len(store["program"])) =>
          /\ resp.status = HTTP_OK
          /\ Len(resp.body) = Len(store["program"])
          /\ \A j \in 1..Len(store["program"]) :
                \E i \in 1..Len(resp.body) :
                    \A f \in ProgramFields : resp.body[i][f] = store["program"][j][f]

Listed == req.op \in ListOps /\ resp.status = HTTP_OK

\* C5 as stated: the round trip holds and every listed record carries the
\* identifier the store assigned.
C5_Original ==
    /\ RoundTrip
    /\ Listed => \A i \in 1..Len(resp.body) :
                    "_id" \in DOMAIN resp.body[i] \/ "id" \in DOMAIN resp.body[i]

\* C5 (amended): the round trip holds on every submitted field, and a listed
\* record carries no identifier: its fields are exactly the schema's fields.
C5_RoundTripNoId ==
    /\ RoundTrip
    /\ (Listed /\ req.op = "list_programs") =>
          \A i \in 1..Len(resp.body) : DOMAIN resp.body[i] = ProgramFields

C5_Witness ==
    /\ req.op = "list_programs"
    /\ ~EffPublishedOnly
    /\ resp.status = HTTP_OK
    /\ Len(store["program"]) >= 2
    /\ EffLimit >= Len(store["program"])
    /\ \E j \in 1..Len(store["program"]) : store["program"][j]["status"] = "draft"
    /\ Len(resp.body) = Len(store["program"])

\* C6: GET /test is always answered 200 with a report of the six fields and the
\* process goes on serving; with no connection configured the database field
\* reads "Available but not initialized", connection_status is "Not Connected"
\* and collections is empty.
C6_TestNeverFails ==
    (req.op = "test_database") =>
        /\ resp.status = HTTP_OK
        /\ serving
        /\ DOMAIN resp.body = ReportFields
        /\ (db = "none") =>
              /\ resp.body.database = <<"Available but not initialized", <<>>>>
              /\ resp.body.connection_status = "Not Connected"
              /\ resp.body.collections = <<>>
        /\ (db = "connected" /\ ~storeUp /\ ~req.args.name_raises) =>
              resp.body.database = <<"Connected but Error: ", Truncate(raised[1], InnerErrShown)>>

C6_Witness ==
    /\ req.op = "test_database"
    /\ db = "none"
    /\ resp.status = HTTP_OK
    /\ resp.body.connection_status = "Not Connected"

\* a create request whose insert the store refused
InsertFailed == req.op \in CreateOps /\ raised # <<>>

\* C7 as stated, the part about the detail: the detail of the 500 is the error
\* text cut to the longest excerpt the program makes of an error text.
C7_Original ==
    InsertFailed =>
        /\ resp.status = HTTP_SERVER_ERROR
        /\ resp.body.detail = Truncate(raised[1], OuterErrShown)

\* C7 (amended): a create request makes at most one insert attempt; when the
\* insert fails the answer is 500 with the whole error text as detail, not a
\* truncation of it, and the store is unchanged; a 500 comes from a failed
\* insert only; a 200 leaves exactly one more document in its collection.
C7_FailureSurfacedOnce ==
    [][(req'.op \in CreateOps) =>
          LET coll == CollectionOf(req'.op)
          IN  /\ calls' <= 1
              /\ (raised' # <<>>) =>
                    /\ resp'.status = HTTP_SERVER_ERROR
                    /\ resp'.body.detail = raised'[1]
                    /\ store' = store
              /\ (resp'.status = HTTP_SERVER_ERROR) => (raised' # <<>> /\ calls' = 1)
              /\ (resp'.status = HTTP_OK) =>
                    /\ calls' = 1
                    /\ Len(store'[coll]) = Len(store[coll]) + 1
                    /\ SubSeq(store'[coll], 1, Len(store[coll])) = store[coll]
                    /\ \A c \in Collections \ {coll} : store'[c] = store[c]
              /\ (resp'.status \notin {HTTP_OK, HTTP_SERVER_ERROR}) =>
                    (calls' = 0 /\ store' = store)]_vars

C7_Witness ==
    /\ req.op = "create_volunteer"
    /\ resp.status = HTTP_SERVER_ERROR
    /\ calls = 1
    /\ Len(resp.body.detail) = LongErrLen
    /\ store["volunteerapplication"] = <<>>

\* C8: the process always goes on serving; with the store not answering, a list
\* request is answered 500 and a create request 422 or 500; the auxiliary
\* endpoints are answered 200 in every store state; with the store answering,
\* a list request is answered 200 and a create request 200 or 422.
C8_DegradedMode ==
    /\ serving
    /\ (req.op \in ListOps /\ ~Available(Env)) => resp.status = HTTP_SERVER_ERROR
    /\ (req.op \in CreateOps /\ ~Available(Env)) =>
          resp.status \in {HTTP_UNPROCESSABLE, HTTP_SERVER_ERROR}
    /\ (req.op \in AuxOps) => resp.status = HTTP_OK
    /\ (req.op \in ListOps /\ Available(Env)) => resp.status = HTTP_OK
    /\ (req.op \in CreateOps /\ Available(Env)) =>
          resp.status \in {HTTP_OK, HTTP_UNPROCESSABLE}

C8_Witness ==
    /\ degraded
    /\ req.op \in ListOps
    /\ Available(Env)
    /\ resp.status = HTTP_OK

\* C9: every step keeps every stored document in place with its fields
\* unchanged; a list, root, hello or diagnostic request leaves the store as it
\* was; a create request changes no collection but its own and adds at most one
\* document to that one.
C9_NoUpdateNoDelete ==
    [][/\ \A c \in Collections : IsPrefix(store[c], store'[c])
       /\ (req'.op \in ListOps \cup AuxOps) => store' = store
       /\ (req'.op \in CreateOps) =>
             /\ \A c \in Collections \ {CollectionOf(req'.op)} : store'[c] = store[c]
             /\ Len(store'[CollectionOf(req'.op)]) <= Len(store[CollectionOf(req'.op)]) + 1]_vars

C9_Witness ==
    /\ store["program"] # <<>>
    /\ store["donationintent"] # <<>>
    /\ req.op = "list_programs"
    /\ resp.status = HTTP_OK
    /\ Len(resp.body) = 1

StoredStatus(coll) == {store[coll][i]["status"] : i \in 1..Len(store[coll])}

Accepted ==
    \/ req.op \in {"create_volunteer", "create_partner"} /\ resp.status = HTTP_OK
    \/ req.op = "admin_insert" /\ resp.body.accepted

Refused ==
    \/ req.op \in {"create_volunteer", "create_partner"}
          /\ resp.status = HTTP_UNPROCESSABLE
          /\ <<"status", "literal_error">> \in resp.body.detail
    \/ req.op = "admin_insert" /\ ~resp.body.accepted

StatusBody == IF req.op = "admin_insert" THEN req.args.body ELSE req.args

StatusCollection ==
    IF req.op = "admin_insert" THEN req.args.collection ELSE CollectionOf(req.op)

StatusEnum(coll) ==
    IF coll = "volunteerapplication" THEN VolunteerStatus
    ELSE IF coll = "partnerinquiry" THEN PartnerStatus ELSE ContentStatus

StatusDefault(coll) == IF coll \in ContentCollections THEN "published" ELSE "received"

\* the enumeration, the default and the refusal, with the stored values in `allowed`
StatusRule(allowed(_)) ==
    /\ \A coll \in ContentCollections \cup {"volunteerapplication", "partnerinquiry"} :
          StoredStatus(coll) \subseteq allowed(coll)
    /\ (req.op \in {"create_volunteer", "create_partner", "admin_insert"} /\ Available(Env)) =>
          LET b == StatusBody
              coll == StatusCollection
          IN  IF "status" \notin DOMAIN b
              THEN Accepted /\ Last(store[coll])["status"] = StatusDefault(coll)
              ELSE IF b["status"] \in allowed(coll)
              THEN Accepted /\ Last(store[coll])["status"] = b["status"]
              ELSE Refused

EnumOnly(coll) == StatusEnum(coll)

EnumOrNull(coll) == StatusEnum(coll) \cup {NULL}

\* C10 as stated: every stored status is a value of its enumeration, the default
\* when omitted, and any other submitted value is refused.
C10_Original == StatusRule(EnumOnly)

\* C10 (amended): every stored status is a value of its enumeration or null;
\* it is the default when the caller omits it, the submitted value when that is
\* in the enumeration or null, and any other submitted value is refused.
C10_StatusEnumOrNull == StatusRule(EnumOrNull)

C10_Witness ==
    /\ req.op = "create_volunteer"
    /\ resp.status = HTTP_OK
    /\ "status" \in DOMAIN req.args
    /\ req.args["status"] = NULL
    /\ Last(store["volunteerapplication"])["status"] = NULL

====
